---- MODULE Spec2Model ----
(***************************************************************************)
(* A model of wojnosystems/flagfig: a flag.FlagSet extended with JSON      *)
(* configuration files and environment variables (src/flagfig.go).         *)
(*                                                                         *)
(* The registry (FlagfigSet) is the state; the typed declarations,         *)
(* AddConfigFile, Parse and Collate are the actions.  The argument list,   *)
(* the files on disk and the process environment are the inputs of a call, *)
(* drawn from bounded sets; what a call read of them is kept in fsSeen and *)
(* environ.  Go's flag, strconv, fmt, time and encoding/json packages are  *)
(* modelled by what they do to the values flagfig hands them.              *)
(*                                                                         *)
(* Spec is the registry under one Parse; SpecCoerce the conversions of one *)
(* file entry; SpecFrame two settings and the keys of a file; SpecAgain a  *)
(* registry collated more than once; SpecNested ParseNested                *)
(* (src/nester.go); SpecCut ArgsAfterArgWithEqualTo.                       *)
(***************************************************************************)
EXTENDS Naturals, Sequences, FiniteSets, TLC

VARIABLES
  formal,           \* flag.FlagSet.formal: name -> [kind, val, def]
  actual,           \* flag.FlagSet.actual: the names that have been Set
  configFilePaths,  \* FlagfigSet.configFilePaths, as the names of the path flags
  flagTypes,        \* FlagfigSet.flagTypes: name -> kind tag
  envNames,         \* FlagfigSet.envNames: name -> environment variable name
  outcome,          \* how the last call ended: none, ok, error, panic, fatal
  args,             \* the argument list of the last Parse
  unvisited,        \* unVisitedFlags of the last Collate
  reads,            \* the paths the last Collate handed to ioutil.ReadFile, in order
  fsSeen,           \* path -> content, for the paths in reads
  environ,          \* the process environment the last Collate ran in
  envSets,          \* the names the environment step of the last Collate called Set on
  nestedConfigs,    \* ParseNested: the list of Nesters it was given
  calls,            \* ParseNested: the calls it has made so far, in order
  pc,               \* ParseNested: where it stands
  trim,             \* ArgsAfterArgWithEqualTo: a call's token, args and result
  earlier           \* what the Collates before the last one left, oldest first

\* The variables of a ParseNested call; the registry it builds is the one above.
nestVars == <<nestedConfigs, calls, pc>>

\* The variables of the registry and of the last Parse on it.
flagVars == <<formal, actual, configFilePaths, flagTypes, envNames, outcome,
              args, unvisited, reads, fsSeen, environ, envSets>>

vars == <<formal, actual, configFilePaths, flagTypes, envNames, outcome, args,
          unvisited, reads, fsSeen, environ, envSets, nestedConfigs, calls, pc,
          trim, earlier>>

(***************************************************************************)
(* Numbers.  TLC's integers are 32 bits wide, flagfig's are 64 and JSON's  *)
(* are float64, so a magnitude is a sequence of bits, most significant     *)
(* first and without leading zeros; <<>> is zero.                          *)
(***************************************************************************)

\* strconv.IntSize on a 64-bit build, the width of int, int64, uint, uint64
\* and time.Duration.
IntSize == 64

\* The significand of a float64, the type encoding/json gives every number.
Float64Bits == 53

\* The digits after the point that fmt's %f verb prints.
FloatPrec == 6

\* The digits after the point a JSON number of the model carries.
FracDigits == 7

RECURSIVE Pow10(_)
Pow10(k) == IF k = 0 THEN 1 ELSE 10 * Pow10(k - 1)

\* One, in the units of a model number's fraction.
Den == Pow10(FracDigits)

RECURSIVE Bits(_)
Bits(n) == IF n = 0 THEN <<>> ELSE Append(Bits(n \div 2), n % 2)

Zeros(k) == [i \in 1..k |-> 0]

Ones(k) == [i \in 1..k |-> 1]

Pow2(k) == <<1>> \o Zeros(k)

RECURSIVE IncBits(_)
IncBits(b) ==
  IF Len(b) = 0 THEN <<1>>
  ELSE IF b[Len(b)] = 0 THEN SubSeq(b, 1, Len(b) - 1) \o <<1>>
  ELSE IncBits(SubSeq(b, 1, Len(b) - 1)) \o <<0>>

\* a <= b on magnitudes.
LeqBits(a, b) ==
  \/ Len(a) < Len(b)
  \/ /\ Len(a) = Len(b)
     /\ \/ a = b
        \/ \E i \in 1..Len(a) :
             /\ a[i] < b[i]
             /\ \A k \in 1..(i - 1) : a[k] = b[k]

\* The magnitude rounded to p significant bits, ties to even; up says
\* that the part cut off beside the bits (a fraction) is not zero.
RoundBits(b, p, up) ==
  IF Len(b) <= p THEN b
  ELSE LET top    == SubSeq(b, 1, p)
           rest   == SubSeq(b, p + 1, Len(b))
           sticky == up \/ \E i \in 2..Len(rest) : rest[i] = 1
           round  == rest[1] = 1 /\ (sticky \/ top[p] = 1)
       IN  (IF round THEN IncBits(top) ELSE top) \o Zeros(Len(rest))

\* A number: sign, whole part, and fraction in units of 1/Den.
Num(neg, mag, frac) == [neg |-> neg, mag |-> mag, frac |-> frac]

\* An integer value of a flag: sign and magnitude.
IntVal(neg, mag) == [neg |-> neg, mag |-> mag]

N(n) == Num(FALSE, Bits(n), 0)

I(n) == IntVal(FALSE, Bits(n))

(***************************************************************************)
(* Kinds and values.  A Bool flag holds [b |-> ...], a String flag a text, *)
(* an Int, Int64, Uint, Uint64 or Duration flag an IntVal (a Duration in   *)
(* nanoseconds) and a Float64 flag a Num.                                  *)
(***************************************************************************)
intType == 0

stringType == 1

boolType == 2

floatType == 3

int64Type == 4

uintType == 5

uint64Type == 6

durationType == 7

Kinds == {intType, stringType, boolType, floatType, int64Type, uintType,
          uint64Type, durationType}

SignedKinds == {intType, int64Type}

UnsignedKinds == {uintType, uint64Type}

\* A text is a Go string: a literal of the model, or the digits fmt.Sprintf
\* printed for a number: sign, whole part, prec digits after the point (frac
\* counts units of 10^-prec) and a unit suffix.
Lit(s) == [lit |-> s]

Dec(neg, mag, frac, prec, unit) ==
  [neg |-> neg, mag |-> mag, frac |-> frac, prec |-> prec, unit |-> unit]

IsLit(t) == "lit" \in DOMAIN t

BoolVal(b) == [b |-> b]

ZeroInt == IntVal(FALSE, <<>>)

ZeroNum == Num(FALSE, <<>>, 0)

\* The decimal numerals among the model's literals, as strconv reads them.
NumeralOf == ("0" :> 0) @@ ("3" :> 3) @@ ("12" :> 12)

\* The durations among the model's literals, in nanoseconds, as
\* time.ParseDuration reads them.
DurationOf == ("0" :> 0) @@ ("5ns" :> 5)

\* encoding/json decodes every number into a float64: the nearest one, ties
\* to even.  A number below 2^53 with a fraction of FracDigits digits is kept
\* as written: its float64 prints and rounds as the decimal does.
ToFloat64(n) ==
  IF Len(n.mag) < Float64Bits THEN n
  ELSE LET m == IF Len(n.mag) = Float64Bits
                  THEN (IF 2 * n.frac > Den \/ (2 * n.frac = Den /\ n.mag[Len(n.mag)] = 1)
                          THEN IncBits(n.mag) ELSE n.mag)
                  ELSE RoundBits(n.mag, Float64Bits, n.frac # 0)
       IN  Num(n.neg, m, 0)

\* fmt.Sprintf("%.0f", v): the nearest whole number, ties to even.
FormatWhole(v, unit) ==
  LET odd == Len(v.mag) > 0 /\ v.mag[Len(v.mag)] = 1
      up  == 2 * v.frac > Den \/ (2 * v.frac = Den /\ odd)
  IN  Dec(v.neg, IF up THEN IncBits(v.mag) ELSE v.mag, 0, 0, unit)

\* fmt.Sprintf("%f", v): FloatPrec digits after the point, the nearest such
\* decimal, ties to even.
FormatFloat(v) ==
  LET cut  == Pow10(FracDigits - FloatPrec)
      q    == v.frac \div cut
      r    == v.frac % cut
      up   == 2 * r > cut \/ (2 * r = cut /\ q % 2 = 1)
      q1   == IF up THEN q + 1 ELSE q
      one  == Pow10(FloatPrec)
  IN  IF q1 = one THEN Dec(v.neg, IncBits(v.mag), 0, FloatPrec, "")
                  ELSE Dec(v.neg, v.mag, q1, FloatPrec, "")

\* strconv.ParseBool.
boolSet(t) ==
  IF IsLit(t)
    THEN IF t.lit \in {"1", "t", "T", "TRUE", "true", "True"}
           THEN [val |-> BoolVal(TRUE), ok |-> TRUE]
         ELSE IF t.lit \in {"0", "f", "F", "FALSE", "false", "False"}
           THEN [val |-> BoolVal(FALSE), ok |-> TRUE]
         ELSE [val |-> BoolVal(FALSE), ok |-> FALSE]
    ELSE IF t.prec = 0 /\ t.unit = "" /\ ~t.neg /\ Len(t.mag) <= 1
           THEN [val |-> BoolVal(Len(t.mag) = 1), ok |-> TRUE]
           ELSE [val |-> BoolVal(FALSE), ok |-> FALSE]

\* strconv.ParseInt(s, 0, w): on a syntax error 0, on a range error the
\* nearest value of the width; flag's Set stores what it returned either way.
intSet(t, w) ==
  IF IsLit(t)
    THEN IF t.lit \in DOMAIN NumeralOf
           THEN [val |-> I(NumeralOf[t.lit]), ok |-> TRUE]
           ELSE [val |-> ZeroInt, ok |-> FALSE]
  ELSE IF t.prec # 0 \/ t.unit # ""
    THEN [val |-> ZeroInt, ok |-> FALSE]
  ELSE IF t.neg
    THEN IF LeqBits(t.mag, Pow2(w - 1))
           THEN [val |-> IntVal(Len(t.mag) > 0, t.mag), ok |-> TRUE]
           ELSE [val |-> IntVal(TRUE, Pow2(w - 1)), ok |-> FALSE]
  ELSE IF Len(t.mag) <= w - 1
    THEN [val |-> IntVal(FALSE, t.mag), ok |-> TRUE]
    ELSE [val |-> IntVal(FALSE, Ones(w - 1)), ok |-> FALSE]

\* strconv.ParseUint(s, 0, w): a sign is a syntax error.
uintSet(t, w) ==
  IF IsLit(t)
    THEN IF t.lit \in DOMAIN NumeralOf
           THEN [val |-> I(NumeralOf[t.lit]), ok |-> TRUE]
           ELSE [val |-> ZeroInt, ok |-> FALSE]
  ELSE IF t.prec # 0 \/ t.unit # "" \/ t.neg
    THEN [val |-> ZeroInt, ok |-> FALSE]
  ELSE IF Len(t.mag) <= w
    THEN [val |-> IntVal(FALSE, t.mag), ok |-> TRUE]
    ELSE [val |-> IntVal(FALSE, Ones(w)), ok |-> FALSE]

\* strconv.ParseFloat(s, 64).
float64Set(t) ==
  IF IsLit(t)
    THEN IF t.lit \in DOMAIN NumeralOf
           THEN [val |-> N(NumeralOf[t.lit]), ok |-> TRUE]
           ELSE [val |-> ZeroNum, ok |-> FALSE]
  ELSE IF t.unit # ""
    THEN [val |-> ZeroNum, ok |-> FALSE]
    ELSE [val |-> ToFloat64(Num(t.neg, t.mag, t.frac * Pow10(FracDigits - t.prec))),
          ok  |-> TRUE]

\* time.ParseDuration: a number needs a unit, and must fit 63 bits.
durationSet(t) ==
  IF IsLit(t)
    THEN IF t.lit \in DOMAIN DurationOf
           THEN [val |-> I(DurationOf[t.lit]), ok |-> TRUE]
           ELSE [val |-> ZeroInt, ok |-> FALSE]
  ELSE IF t.unit # "ns" \/ t.prec # 0
    THEN [val |-> ZeroInt, ok |-> FALSE]
  ELSE IF Len(t.mag) <= IntSize - 1 \/ (t.neg /\ t.mag = Pow2(IntSize - 1))
    THEN [val |-> IntVal(t.neg /\ Len(t.mag) > 0, t.mag), ok |-> TRUE]
    ELSE [val |-> ZeroInt, ok |-> FALSE]

\* flag.Value.Set of the Value a typed declaration binds: the new value of
\* the cell, and whether Set returned no error.
ValueSet(kind, t) ==
  IF kind = boolType THEN boolSet(t)
  ELSE IF kind = stringType THEN [val |-> t, ok |-> TRUE]
  ELSE IF kind \in SignedKinds THEN intSet(t, IntSize)
  ELSE IF kind \in UnsignedKinds THEN uintSet(t, IntSize)
  ELSE IF kind = floatType THEN float64Set(t)
  ELSE durationSet(t)

(***************************************************************************)
(* The inputs of a call: files, environment, arguments.                    *)
(***************************************************************************)

\* What ioutil.ReadFile and json.Unmarshal make of a path: no readable file,
\* bytes that do not decode into a map, or a JSON object.
Absent == [k |-> "absent"]

Garbage == [k |-> "garbage"]

Object(m) == [k |-> "object", m |-> m]

JBool(b) == [j |-> "bool", b |-> b]

JString(s) == [j |-> "string", s |-> s]

JNumber(n) == [j |-> "number", n |-> n]

JNull == [j |-> "null"]

JObject == [j |-> "object"]

JArray == [j |-> "array"]

Empty == [x \in {} |-> JNull]

\* The value of a function, or a default outside its domain (a Go map read).
Get(f, x, d) == IF x \in DOMAIN f THEN f[x] ELSE d

\* os.Getenv: an unset variable reads as the empty string.
GetenvUnset(env, name) == Get(env, name, "unset")

Getenv(env, name) == Get(env, name, "")

\* ioutil.ReadFile followed by json.Unmarshal, for the path a cell holds.
ReadFile(fs, p) == IF IsLit(p) THEN Get(fs, p.lit, Absent) ELSE Absent

(***************************************************************************)
(* flag.FlagSet.                                                           *)
(***************************************************************************)

\* One declared flag: the kind of Value bound, its cell and its default.
Flag(kind, def) == [kind |-> kind, val |-> def, def |-> def]

\* flag.FlagSet.Set(name, value) on the registry fields s.formal and
\* s.actual: an unknown name is an error; otherwise the Value's Set runs
\* (and stores what it parsed) and only a successful one marks the flag
\* as set.
FlagSetSet(s, name, t) ==
  IF name \notin DOMAIN s.formal THEN [s EXCEPT !.ok = FALSE]
  ELSE LET r == ValueSet(s.formal[name].kind, t)
       IN  [s EXCEPT !.formal[name].val = r.val,
                     !.actual = IF r.ok THEN @ \cup {name} ELSE @,
                     !.ok = r.ok]

\* flag.FlagSet.Parse, in the flag.ContinueOnError mode: the arguments are
\* applied from the left, and the first unknown flag or value that does not
\* parse ends the parse with an error.  An argument is a flag name and a
\* value; splitting the command line into them is left to package flag.
RECURSIVE FlagSetParse(_, _)
FlagSetParse(s, arguments) ==
  IF arguments = <<>> THEN s
  ELSE LET s1 == FlagSetSet(s, Head(arguments).name, Lit(Head(arguments).value))
       IN  IF s1.ok THEN FlagSetParse(s1, Tail(arguments)) ELSE s1

(***************************************************************************)
(* FlagfigSet.                                                             *)
(***************************************************************************)

\* The default case of the type switch: log.Fatalf ends the process.
UnsupportedTypeLogged == [do |-> "skip"]

UnsupportedType == [do |-> "fatal"]

\* The string Set is given for a number in a Duration flag's entry: the
\* nanoseconds with their unit (the padding of %18.0f is trimmed away).
DurationTextBare(f) == FormatWhole(f, "")

DurationText(f) == FormatWhole(f, "ns")

\* The string readConfigurationFiles hands to Set for one file entry, or
\* what it does instead: "skip" (no case sets the flag) or "fatal".  tag is
\* flagTypes[key], intType for a key it does not hold.
FileText(tag, v) ==
  IF v.j = "bool" THEN [do |-> "set", t |-> Lit(IF v.b THEN "true" ELSE "false")]
  ELSE IF v.j = "string" THEN [do |-> "set", t |-> Lit(v.s)]
  ELSE IF v.j = "number" THEN
    LET f == ToFloat64(v.n)
    IN  IF tag \in SignedKinds \cup UnsignedKinds
          THEN [do |-> "set", t |-> FormatWhole(f, "")]
        ELSE IF tag = floatType THEN [do |-> "set", t |-> FormatFloat(f)]
        ELSE IF tag = durationType THEN [do |-> "set", t |-> DurationText(f)]
        ELSE [do |-> "skip"]
  ELSE UnsupportedType

\* The keys of a decoded file that the loop acts on: those that name a flag
\* of unvisitedFlags, the map Collate built before it read any file.
FileKeysOnce(s, unvisitedFlags, m) == (DOMAIN m \cap unvisitedFlags) \ s.actual

FileKeys(s, unvisitedFlags, m) == DOMAIN m \cap unvisitedFlags

\* A loop over one decoded file that sets the typed settings only, never a
\* path flag.
ProcessFileSettingsOnly(s, tags, unvisitedFlags, m) ==
  LET keys == FileKeys(s, unvisitedFlags, m) \cap DOMAIN tags
      act(k) == FileText(tags[k], m[k])
      sets == {k \in keys : act(k).do = "set"}
      res(k) == ValueSet(s.formal[k].kind, act(k).t)
  IN  IF \E k \in keys : act(k).do = "fatal"
        THEN [s EXCEPT !.status = "fatal"]
        ELSE [s EXCEPT
               !.formal = [n \in DOMAIN s.formal |->
                            IF n \in sets THEN [s.formal[n] EXCEPT !.val = res(n).val]
                                          ELSE s.formal[n]],
               !.actual = @ \cup {k \in sets : res(k).ok}]

\* The body of the loop over one decoded file: every key that names an
\* unvisited flag is set from its entry.  The keys are distinct, so the order
\* Go's map iteration takes them in shows only in a fatal exit, which ends
\* the process whatever was set before it.
ProcessFile(s, tags, unvisitedFlags, m) ==
  LET keys == FileKeys(s, unvisitedFlags, m)
      act(k) == FileText(Get(tags, k, intType), m[k])
      sets == {k \in keys : act(k).do = "set"}
      res(k) == ValueSet(s.formal[k].kind, act(k).t)
  IN  IF \E k \in keys : act(k).do = "fatal"
        THEN [s EXCEPT !.status = "fatal"]
        ELSE [s EXCEPT
               !.formal = [n \in DOMAIN s.formal |->
                            IF n \in sets THEN [s.formal[n] EXCEPT !.val = res(n).val]
                                          ELSE s.formal[n]],
               !.actual = @ \cup {k \in sets : res(k).ok}]

\* What readConfigurationFiles does with the file it read: panic on a read
\* error, nothing but a log line on a decoding error, the loop over the keys
\* otherwise.
Lower(x) == IF x = "A" THEN "a" ELSE x

Fold(m) ==
  [k \in {Lower(x) : x \in DOMAIN m} |-> m[CHOOSE x \in DOMAIN m : Lower(x) = k]]

ReadStepFolded(s, tags, unvisitedFlags, dat) ==
  IF dat = Absent THEN [s EXCEPT !.status = "panic"]
  ELSE IF dat = Garbage THEN s
  ELSE ProcessFile(s, tags, unvisitedFlags, Fold(dat.m))

ReadStepDecodeError(s, tags, unvisitedFlags, dat) ==
  IF dat = Absent THEN [s EXCEPT !.status = "panic"]
  ELSE IF dat = Garbage THEN [s EXCEPT !.status = "panic"]
  ELSE ProcessFile(s, tags, unvisitedFlags, dat.m)

ReadStepReadError(s, tags, unvisitedFlags, dat) ==
  IF dat = Absent \/ dat = Garbage THEN s
  ELSE ProcessFile(s, tags, unvisitedFlags, dat.m)

ReadStep(s, tags, unvisitedFlags, dat) ==
  IF dat = Absent THEN [s EXCEPT !.status = "panic"]
  ELSE IF dat = Garbage THEN s
  ELSE ProcessFile(s, tags, unvisitedFlags, dat.m)

\* The test that passes a path flag over: its cell holds the empty string.
NoSourceNever(filePath) == FALSE

NoSource(filePath) == filePath = Lit("")

\* FlagfigSet.readConfigurationFiles, from the i-th path flag on: a path
\* cell that is empty when its turn comes is passed over.
RECURSIVE readConfigurationFiles(_, _, _, _, _, _)
readConfigurationFiles(s, paths, tags, unvisitedFlags, fs, i) ==
  IF i > Len(paths) \/ s.status # "run" THEN s
  ELSE LET filePath == Get(s.formal, paths[i], Flag(stringType, Lit(""))).val
       IN  IF NoSource(filePath)
             THEN readConfigurationFiles(s, paths, tags, unvisitedFlags, fs, i + 1)
             ELSE readConfigurationFiles(
                    ReadStep([s EXCEPT !.reads = Append(@, filePath)], tags,
                             unvisitedFlags, ReadFile(fs, filePath)),
                    paths, tags, unvisitedFlags, fs, i + 1)

\* unVisitedFlags of Collate: the declared flags that flag.FlagSet.Visit does
\* not report as set.
UnVisitedFlagsAll(s) == DOMAIN s.formal

UnVisitedFlags(s) == DOMAIN s.formal \ s.actual

\* The names the environment step of Collate calls Set on: the unvisited
\* flags with an entry in envNames whose variable reads non-empty, whatever
\* the files gave them.
EnvOverridesUnlessFile(s, names, unvisitedFlags, env) ==
  {n \in unvisitedFlags \ s.actual :
     n \in DOMAIN names /\ Getenv(env, names[n]) # ""}

EnvOverridesEmptyToo(s, names, unvisitedFlags, env) ==
  {n \in unvisitedFlags : n \in DOMAIN names}

EnvOverrides(s, names, unvisitedFlags, env) ==
  {n \in unvisitedFlags : n \in DOMAIN names /\ Getenv(env, names[n]) # ""}

\* The environment step of Collate.
ApplyEnv(s, names, over, env) ==
  LET res(n) == ValueSet(s.formal[n].kind, Lit(Getenv(env, names[n])))
  IN  [s EXCEPT
        !.formal = [n \in DOMAIN s.formal |->
                     IF n \in over THEN [s.formal[n] EXCEPT !.val = res(n).val]
                                   ELSE s.formal[n]],
        !.actual = @ \cup {n \in over : res(n).ok},
        !.envSets = over,
        !.errs = IF over = {} THEN {FALSE} ELSE {~res(n).ok : n \in over}]

\* FlagfigSet.Collate on the registry fields s, with the files fs and the
\* environment env.  The result's status is "run" when Collate returned, and
\* errs then holds the error results it can return: err is what the last Set
\* of the environment loop returned, and Go's map iteration decides which
\* flag is last.
Collate(s, paths, tags, names, fs, env) ==
  LET unVisitedFlags == UnVisitedFlags(s)
      s0 == [s EXCEPT !.unvisited = unVisitedFlags, !.reads = <<>>,
                      !.envSets = {}, !.errs = {FALSE}, !.status = "run"]
      s1 == readConfigurationFiles(s0, paths, tags, unVisitedFlags, fs, 1)
  IN  IF s1.status # "run" THEN s1
      ELSE ApplyEnv(s1, names, EnvOverrides(s1, names, unVisitedFlags, env), env)

(***************************************************************************)
(* The state machine.                                                      *)
(***************************************************************************)

\* The longest argument list handed to Parse.
MaxArgs == 2

SettingNames == {"a"}

ConfigFlagNames == {"c1", "c2"}

EnvVarNames == {"", "EA"}

Paths == {"f1", "f2"}

\* The defaults a declaration of each kind is given.
Half == Den \div 2

BoolDefaults == BOOLEAN

StringDefaults == {"dflt"}

IntDefaults == {I(1)}

Float64Defaults == {Num(FALSE, Bits(1), Half)}

\* The entries a file gives the setting: one value of every JSON type.
Entries1 == {JBool(FALSE), JString("hello"), JString("12"), JNumber(N(5)), JNull}

Entries2 == {JBool(TRUE), JString("world"), JNumber(N(7))}

Contents1 ==
  {Absent, Garbage, Object(Empty), Object("zz" :> JNull)}
    \cup {Object("a" :> v) : v \in Entries1}

Contents2 ==
  {Absent, Garbage, Object(Empty)} \cup {Object("a" :> v) : v \in Entries2}

FileSystems == {("f1" :> x) @@ ("f2" :> y) : x \in Contents1, y \in Contents2}

Environments ==
  {Empty} \cup {("EA" :> v) : v \in {"", "true", "12", "5ns", "hello"}}

Arg(name, value) == [name |-> name, value |-> value]

Arguments ==
  {Arg("a", "0"), Arg("a", "cmd"), Arg("c1", "f1"), Arg("c1", ""),
   Arg("c2", "f2")}

Range(q) == {q[i] : i \in 1..Len(q)}

RECURSIVE ArgListsUpTo(_, _)
ArgListsUpTo(S, n) ==
  IF n = 0 THEN {<<>>}
  ELSE LET shorter == ArgListsUpTo(S, n - 1)
       IN  shorter \cup {Append(q, x) : q \in shorter, x \in S}

\* The argument lists handed to Parse: they name no flag twice.
ArgLists == {l \in ArgListsUpTo(Arguments, MaxArgs) :
               \A i, k \in 1..Len(l) : l[i].name = l[k].name => i = k}

Worlds == {[fs |-> f, env |-> e] : f \in FileSystems, e \in Environments}

Init ==
  /\ formal = Empty
  /\ actual = {}
  /\ configFilePaths = <<>>
  /\ flagTypes = Empty
  /\ envNames = Empty
  /\ outcome = "none"
  /\ args = <<>>
  /\ unvisited = {}
  /\ reads = <<>>
  /\ fsSeen = Empty
  /\ environ = Empty
  /\ envSets = {}
  /\ nestedConfigs = <<>>
  /\ calls = <<>>
  /\ pc = "idle"
  /\ trim = [called |-> FALSE, token |-> "", args |-> <<>>, result |-> <<>>]
  /\ earlier = <<>>

\* The part every typed declaration shares: envNames and flagTypes are
\* written first, then flag.FlagSet.Var binds the cell, and panics
\* ("flag redefined", the outcome "redefined") on a name that is already
\* declared.
DeclareOverwrite(name, kind, def, envName) ==
  /\ outcome = "none"
  /\ envNames' = (name :> envName) @@ envNames
  /\ flagTypes' = (name :> kind) @@ flagTypes
  /\ outcome' = "none"
  /\ formal' = (name :> Flag(kind, def)) @@ formal
  /\ UNCHANGED <<actual, configFilePaths, args, unvisited, reads, fsSeen,
                 environ, envSets>>

Declare(name, kind, def, envName) ==
  /\ outcome = "none"
  /\ envNames' = (name :> envName) @@ envNames
  /\ flagTypes' = (name :> kind) @@ flagTypes
  /\ IF name \in DOMAIN formal
       THEN outcome' = "redefined" /\ UNCHANGED formal
       ELSE outcome' = "none" /\ formal' = (name :> Flag(kind, def)) @@ formal
  /\ UNCHANGED <<actual, configFilePaths, args, unvisited, reads, fsSeen,
                 environ, envSets>>

Bool(name, defaultValue, envName) ==
  Declare(name, boolType, BoolVal(defaultValue), envName)

String(name, defaultValue, envName) ==
  Declare(name, stringType, Lit(defaultValue), envName)

Int(name, defaultValue, envName) ==
  Declare(name, intType, defaultValue, envName)

Float64(name, defaultValue, envName) ==
  Declare(name, floatType, defaultValue, envName)

Int64(name, defaultValue, envName) ==
  Declare(name, int64Type, defaultValue, envName)

Uint(name, defaultValue, envName) ==
  Declare(name, uintType, defaultValue, envName)

Uint64(name, defaultValue, envName) ==
  Declare(name, uint64Type, defaultValue, envName)

Duration(name, defaultValue, envName) ==
  Declare(name, durationType, defaultValue, envName)

\* FlagfigSet.AddConfigFile: the path cell joins configFilePaths, then is
\* declared as a string flag with the empty default.
AddConfigFile(name) ==
  /\ outcome = "none"
  /\ configFilePaths' = Append(configFilePaths, name)
  /\ IF name \in DOMAIN formal
       THEN outcome' = "redefined" /\ UNCHANGED formal
       ELSE outcome' = "none" /\ formal' = (name :> Flag(stringType, Lit(""))) @@ formal
  /\ UNCHANGED <<actual, flagTypes, envNames, args, unvisited, reads, fsSeen,
                 environ, envSets>>

\* The registry fields as the record the operators above work on.
Registry ==
  [formal |-> formal, actual |-> actual, ok |-> TRUE, status |-> "run",
   unvisited |-> {}, reads |-> <<>>, envSets |-> {}, errs |-> {FALSE}]

\* What a Collate that ended as s read of the files.
SeenFiles(s, fs) == [p \in {x \in DOMAIN fs : Lit(x) \in Range(s.reads)} |-> fs[p]]

\* The state a Collate that ended as s leaves behind.
Collated(s, fs, env) ==
  /\ formal' = s.formal
  /\ actual' = s.actual
  /\ unvisited' = s.unvisited
  /\ reads' = s.reads
  /\ envSets' = s.envSets
  /\ fsSeen' = SeenFiles(s, fs)
  /\ environ' = env
  /\ \E e \in s.errs :
       outcome' = IF s.status # "run" THEN s.status
                  ELSE IF e THEN "collateError" ELSE "ok"

\* FlagfigSet.Parse: flag.FlagSet.Parse, then Collate unless the parse
\* returned an error; a world is the files and the environment Collate finds
\* when it runs.  A program parses its arguments once.
ParseCollateAlways(arguments, worlds) ==
  /\ outcome = "none"
  /\ args' = arguments
  /\ \E w \in worlds :
       Collated(Collate([FlagSetParse(Registry, arguments) EXCEPT !.ok = TRUE],
                        configFilePaths, flagTypes, envNames, w.fs, w.env),
                w.fs, w.env)
  /\ UNCHANGED <<configFilePaths, flagTypes, envNames>>

Parse(arguments, worlds) ==
  /\ outcome = "none"
  /\ args' = arguments
  /\ LET p == FlagSetParse(Registry, arguments)
     IN  IF p.ok
           THEN \E w \in worlds :
                  Collated(Collate(p, configFilePaths, flagTypes, envNames, w.fs, w.env),
                           w.fs, w.env)
           ELSE /\ outcome' = "parseError"
                /\ formal' = p.formal
                /\ actual' = p.actual
                /\ UNCHANGED <<unvisited, reads, fsSeen, environ, envSets>>
  /\ UNCHANGED <<configFilePaths, flagTypes, envNames>>

Next ==
  \/ \E n \in SettingNames, d \in BoolDefaults, e \in EnvVarNames : Bool(n, d, e)
       /\ UNCHANGED <<nestVars, trim, earlier>>
  \/ \E n \in SettingNames, d \in StringDefaults, e \in EnvVarNames : String(n, d, e)
       /\ UNCHANGED <<nestVars, trim, earlier>>
  \/ \E n \in SettingNames, d \in IntDefaults, e \in EnvVarNames : Int(n, d, e)
       /\ UNCHANGED <<nestVars, trim, earlier>>
  \/ \E n \in SettingNames, d \in Float64Defaults, e \in EnvVarNames : Float64(n, d, e)
       /\ UNCHANGED <<nestVars, trim, earlier>>
  \/ \E n \in SettingNames, d \in IntDefaults, e \in EnvVarNames : Int64(n, d, e)
       /\ UNCHANGED <<nestVars, trim, earlier>>
  \/ \E n \in SettingNames, d \in IntDefaults, e \in EnvVarNames : Uint(n, d, e)
       /\ UNCHANGED <<nestVars, trim, earlier>>
  \/ \E n \in SettingNames, d \in IntDefaults, e \in EnvVarNames : Uint64(n, d, e)
       /\ UNCHANGED <<nestVars, trim, earlier>>
  \/ \E n \in SettingNames, d \in IntDefaults, e \in EnvVarNames : Duration(n, d, e)
       /\ UNCHANGED <<nestVars, trim, earlier>>
  \/ \E n \in ConfigFlagNames : AddConfigFile(n) /\ UNCHANGED <<nestVars, trim, earlier>>
  \/ \E l \in ArgLists : Parse(l, Worlds) /\ UNCHANGED <<nestVars, trim, earlier>>

Spec == Init /\ [][Next]_vars
(***************************************************************************)
(* What the properties below speak of.                                     *)
(***************************************************************************)

\* Collate was entered; Collate returned.
Ran == outcome \in {"ok", "collateError", "panic", "fatal"}

Returned == outcome \in {"ok", "collateError"}

\* The settings: the flags of the typed declarations, not the path flags.
Settings == DOMAIN formal \ Range(configFilePaths)

\* The flag was passed on the command line, and with what value.
Explicit(n) == \E i \in 1..Len(args) : args[i].name = n

CmdValue(n) == args[CHOOSE i \in 1..Len(args) : args[i].name = n].value

\* The string is one the kind's Value accepts, and the value it denotes.
Parses(kind, str) == ValueSet(kind, Lit(str)).ok

ValueOf(kind, str) == ValueSet(kind, Lit(str)).val

\* The environment value of a flag: empty when it has no environment name.
EnvValue(n) == Getenv(environ, Get(envNames, n, ""))

\* The i-th registered file was read and decoded, and holds a key n.
PathOf(i) == formal[configFilePaths[i]].val

WasRead(i) == IsLit(PathOf(i)) /\ PathOf(i).lit \in DOMAIN fsSeen

ContentOf(i) == fsSeen[PathOf(i).lit]

HasEntry(i, n) ==
  WasRead(i) /\ ContentOf(i).k = "object" /\ n \in DOMAIN ContentOf(i).m

EntryOf(i, n) == ContentOf(i).m[n]

FilesWith(n) == {i \in 1..Len(configFilePaths) : HasEntry(i, n)}

\* The JSON type the kind is set from, and the value of the kind a JSON
\* value of that type stands for: a whole number in range for the integer
\* kinds and for a Duration (in nanoseconds), the number itself for Float64.
JsonTypeOf(kind) ==
  IF kind = boolType THEN "bool"
  ELSE IF kind = stringType THEN "string"
  ELSE "number"

Matches(kind, v) == v.j = JsonTypeOf(kind)

Whole(n) == n.frac = 0

Fits(kind, n) ==
  IF kind \in UnsignedKinds THEN (~n.neg \/ n.mag = <<>>) /\ Len(n.mag) <= IntSize
  ELSE IF kind = floatType THEN TRUE
  ELSE Len(n.mag) <= IntSize - 1

JsonValue(kind, v) ==
  IF kind = boolType THEN BoolVal(v.b)
  ELSE IF kind = stringType THEN Lit(v.s)
  ELSE IF kind = floatType THEN v.n
  ELSE IntVal(v.n.neg /\ v.n.mag # <<>>, v.n.mag)

Max(S) == CHOOSE x \in S : \A y \in S : y <= x

(***************************************************************************)
(* C1: a flag passed on the command line keeps the value the command line  *)
(* gave it, whatever the files and the environment hold: it is not among   *)
(* the unvisited flags, the environment step does not set it, and once     *)
(* Collate has run its value is still the command-line value.              *)
(***************************************************************************)
C1_ExplicitFlagKept ==
  Ran => \A n \in DOMAIN formal :
           Explicit(n) =>
             /\ n \notin unvisited
             /\ n \notin envSets
             /\ formal[n].val = ValueOf(formal[n].kind, CmdValue(n))

\* An explicit setting that a file that was read and the environment both
\* have a value for.
C1_Witness ==
  /\ outcome = "ok"
  /\ "a" \in Settings /\ Explicit("a")
  /\ FilesWith("a") # {}
  /\ EnvValue("a") # ""

(***************************************************************************)
(* C2, as stated: a setting that was not passed on the command line and    *)
(* whose environment variable is named and non-empty resolves to the       *)
(* environment value, whatever the files gave it.                          *)
(***************************************************************************)
C2_EnvWins_Stated ==
  Returned => \A n \in Settings \cap unvisited :
                EnvValue(n) # "" =>
                  /\ Parses(formal[n].kind, EnvValue(n))
                  /\ formal[n].val = ValueOf(formal[n].kind, EnvValue(n))

(***************************************************************************)
(* C2, amended: the same, for an environment value that the setting's kind *)
(* parses.                                                                 *)
(***************************************************************************)
C2_EnvWins ==
  Returned => \A n \in Settings \cap unvisited :
                EnvValue(n) # "" /\ Parses(formal[n].kind, EnvValue(n)) =>
                  formal[n].val = ValueOf(formal[n].kind, EnvValue(n))

\* The environment value overrides the value a file gave the setting.
C2_Witness ==
  /\ outcome = "ok"
  /\ "a" \in Settings \cap unvisited
  /\ \E i \in FilesWith("a") :
       /\ Matches(formal["a"].kind, EntryOf(i, "a"))
       /\ JsonValue(formal["a"].kind, EntryOf(i, "a"))
            # ValueOf(formal["a"].kind, EnvValue("a"))
  /\ EnvValue("a") # "" /\ Parses(formal["a"].kind, EnvValue("a"))

(***************************************************************************)
(* C3: when two files registered one after the other both hold a value for *)
(* a setting that the command line and the environment leave alone, the    *)
(* setting resolves to the value of the file registered later, wherever    *)
(* the path flags stood on the command line.                               *)
(***************************************************************************)
C3_LastFileWins ==
  Returned => \A n \in (Settings \cap unvisited) \ envSets :
                \A i, k \in FilesWith(n) :
                  /\ i < k
                  /\ k = Max(FilesWith(n))
                  /\ Matches(formal[n].kind, EntryOf(k, n))
                  => formal[n].val = JsonValue(formal[n].kind, EntryOf(k, n))

\* Both files hold a value of the setting's kind, the path flag registered
\* later comes first on the command line, and its file's value is the result.
C3_Witness ==
  /\ outcome = "ok"
  /\ "a" \in (Settings \cap unvisited) \ envSets
  /\ FilesWith("a") = {1, 2}
  /\ Len(args) = 2 /\ args[1].name = configFilePaths[2]
  /\ Matches(formal["a"].kind, EntryOf(1, "a"))
  /\ Matches(formal["a"].kind, EntryOf(2, "a"))
  /\ formal["a"].val = JsonValue(formal["a"].kind, EntryOf(2, "a"))
  /\ formal["a"].val # JsonValue(formal["a"].kind, EntryOf(1, "a"))

(***************************************************************************)
(* C4: a setting of any kind that was not passed on the command line, has  *)
(* no entry in any file that was read and no non-empty environment value   *)
(* resolves to the default of its declaration.                             *)
(***************************************************************************)
C4_DefaultKept ==
  Returned => \A n \in Settings \cap unvisited :
                FilesWith(n) = {} /\ EnvValue(n) = "" =>
                  formal[n].val = formal[n].def

\* A Duration setting with an environment name, beside a file that was read
\* and an environment that hold nothing for it.
C4_Witness ==
  /\ outcome = "ok"
  /\ "a" \in Settings \cap unvisited
  /\ formal["a"].kind = durationType
  /\ Get(envNames, "a", "") # ""
  /\ \E i \in 1..Len(configFilePaths) : WasRead(i) /\ ContentOf(i).k = "object"
  /\ FilesWith("a") = {} /\ EnvValue("a") = ""
  /\ formal["a"].val = formal["a"].def

(***************************************************************************)
(* C7, as stated: an entry whose JSON type is not the one the setting's    *)
(* kind is set from is skipped, so a setting that some file gives such an  *)
(* entry resolves to the value of the last file entry of the right type,   *)
(* or to its default when there is none.                                   *)
(***************************************************************************)
C7_MismatchSkipped_Stated ==
  Returned => \A n \in (Settings \cap unvisited) \ envSets :
                LET kind == formal[n].kind
                    good == {i \in FilesWith(n) : Matches(kind, EntryOf(i, n))}
                IN  (\E i \in FilesWith(n) :
                       /\ EntryOf(i, n).j \in {"bool", "string", "number"}
                       /\ ~Matches(kind, EntryOf(i, n)))
                    => formal[n].val = IF good = {} THEN formal[n].def
                                       ELSE JsonValue(kind, EntryOf(Max(good), n))

(***************************************************************************)
(* C8, as stated: a file that was read and decoded and holds a null, an    *)
(* object or an array under any key ends the resolution with a fatal exit. *)
(***************************************************************************)
Unsupported(v) == v.j \in {"null", "object", "array"}

C8_UnsupportedFatal_Stated ==
  \A i \in 1..Len(configFilePaths) :
    /\ WasRead(i)
    /\ ContentOf(i).k = "object"
    /\ \E key \in DOMAIN ContentOf(i).m : Unsupported(ContentOf(i).m[key])
    => outcome = "fatal"

(***************************************************************************)
(* C8, amended: the fatal exit comes when the null, object or array stands *)
(* under the name of a declared flag that was not passed on the command    *)
(* line.                                                                   *)
(***************************************************************************)
C8_UnsupportedFatal ==
  \A i \in 1..Len(configFilePaths) :
    /\ WasRead(i)
    /\ ContentOf(i).k = "object"
    /\ \E key \in DOMAIN ContentOf(i).m \cap unvisited :
         Unsupported(ContentOf(i).m[key])
    => outcome = "fatal"

\* A file that was read holds null for a setting the command line left alone.
C8_Witness ==
  /\ outcome = "fatal"
  /\ "a" \in Settings \cap unvisited
  /\ \E i \in FilesWith("a") : EntryOf(i, "a") = JNull

(***************************************************************************)
(* C9: a file that does not decode is passed over.  The flags, and the way *)
(* Collate ends, are those of the same call without the arguments that     *)
(* name such a file: nothing is set from it, it is no error, and the files *)
(* after it and the environment are applied all the same.                  *)
(***************************************************************************)
Undecodable == {p \in DOMAIN fsSeen : fsSeen[p] = Garbage}

\* The registry as the declarations left it.
Declared ==
  [Registry EXCEPT !.formal = [n \in DOMAIN formal |->
                                 Flag(formal[n].kind, formal[n].def)],
                   !.actual = {}]

NotGiven(l, S) ==
  SelectSeq(l, LAMBDA x : ~(x.name \in Range(configFilePaths) /\ x.value \in S))

Without(S) ==
  Collate(FlagSetParse(Declared, NotGiven(args, S)), configFilePaths, flagTypes,
          envNames, fsSeen, environ)

OutcomesOf(s) ==
  IF s.status # "run" THEN {s.status}
  ELSE {IF e THEN "collateError" ELSE "ok" : e \in s.errs}

C9_UndecodableSkipped ==
  Ran /\ Undecodable # {} =>
    /\ \A n \in Settings : formal[n].val = Without(Undecodable).formal[n].val
    /\ outcome \in OutcomesOf(Without(Undecodable))
    /\ envSets = Without(Undecodable).envSets

\* The first file does not decode; the second sets the setting and the
\* environment then overrides it.
C9_Witness ==
  /\ outcome = "ok"
  /\ Len(reads) = 2
  /\ fsSeen[reads[1].lit] = Garbage
  /\ "a" \in envSets
  /\ FilesWith("a") = {2}

(***************************************************************************)
(* C10: a path flag whose non-empty path cannot be read makes Collate      *)
(* panic: the unreadable file is the last one read, the environment step   *)
(* sets nothing, and a setting no earlier file names is left as it was.    *)
(***************************************************************************)
C10_UnreadablePanics ==
  \A p \in DOMAIN fsSeen :
    fsSeen[p] = Absent =>
      /\ outcome = "panic"
      /\ reads[Len(reads)] = Lit(p)
      /\ envSets = {}
      /\ \A n \in Settings \cap unvisited :
           FilesWith(n) = {} => formal[n].val = formal[n].def

\* The first of two files that were given is unreadable, and the setting
\* has a non-empty environment value.
C10_Witness ==
  /\ outcome = "panic"
  /\ Len(configFilePaths) = 2
  /\ PathOf(1) # Lit("") /\ PathOf(2) # Lit("")
  /\ reads = <<PathOf(1)>>
  /\ "a" \in Settings \cap unvisited
  /\ EnvValue("a") # ""
  /\ Parses(formal["a"].kind, EnvValue("a"))
  /\ formal["a"].val # ValueOf(formal["a"].kind, EnvValue("a"))

(***************************************************************************)
(* The conversions: one setting of any kind, one file, and the numbers     *)
(* that try what a float64, a %.0f, a %f and a 64-bit integer can hold.    *)
(***************************************************************************)
Frac(digits, n) == n * (Den \div Pow10(digits))

\* 30 seconds in nanoseconds, 30000000000 = 29296875 * 2^10.
Seconds30 == Bits(29296875) \o Zeros(10)

CoerceNumbers ==
  { N(5), Num(TRUE, Bits(5), 0), Num(FALSE, Bits(2), Half),
    Num(FALSE, Bits(3), Half), Num(FALSE, Seconds30, 0),
    Num(FALSE, Bits(987), Frac(6, 654321)), Num(FALSE, <<>>, Frac(7, 1234567)),
    Num(FALSE, <<>>, Frac(7, 1)),
    Num(FALSE, Pow2(Float64Bits), 0), Num(FALSE, IncBits(Pow2(Float64Bits)), 0),
    Num(TRUE, IncBits(Pow2(Float64Bits)), 0),
    Num(FALSE, Ones(IntSize - 1), 0), Num(FALSE, Pow2(IntSize), 0) }

CoerceEntries ==
  {JBool(FALSE), JBool(TRUE), JString("hello")}
    \cup {JNumber(x) : x \in CoerceNumbers}

CoerceWorlds ==
  {[fs |-> ("f1" :> Object("a" :> v)), env |-> Empty] : v \in CoerceEntries}

NextCoerce ==
  \/ \E d \in BoolDefaults : Bool("a", d, "") /\ UNCHANGED <<nestVars, trim, earlier>>
  \/ \E d \in StringDefaults : String("a", d, "") /\ UNCHANGED <<nestVars, trim, earlier>>
  \/ \E d \in IntDefaults : Int("a", d, "") /\ UNCHANGED <<nestVars, trim, earlier>>
  \/ \E d \in Float64Defaults : Float64("a", d, "") /\ UNCHANGED <<nestVars, trim, earlier>>
  \/ \E d \in IntDefaults : Int64("a", d, "") /\ UNCHANGED <<nestVars, trim, earlier>>
  \/ \E d \in IntDefaults : Uint("a", d, "") /\ UNCHANGED <<nestVars, trim, earlier>>
  \/ \E d \in IntDefaults : Uint64("a", d, "") /\ UNCHANGED <<nestVars, trim, earlier>>
  \/ \E d \in IntDefaults : Duration("a", d, "") /\ UNCHANGED <<nestVars, trim, earlier>>
  \/ AddConfigFile("c1") /\ UNCHANGED <<nestVars, trim, earlier>>
  \/ \E l \in {<<>>, <<Arg("c1", "f1")>>} : Parse(l, CoerceWorlds)
       /\ UNCHANGED <<nestVars, trim, earlier>>

SpecCoerce == Init /\ [][NextCoerce]_vars

(***************************************************************************)
(* C5, as stated: a setting with an entry in exactly one file, not passed  *)
(* on the command line and without an environment value, resolves to the   *)
(* file's value as a value of its kind: the JSON bool, the JSON string,    *)
(* the JSON number (for the integer kinds and a Duration, a whole number   *)
(* the kind can hold).                                                     *)
(***************************************************************************)
C5_FileValue_Stated ==
  Returned => \A n \in Settings \cap unvisited :
                LET kind == formal[n].kind
                    v == EntryOf(Max(FilesWith(n)), n)
                IN  /\ EnvValue(n) = ""
                    /\ Cardinality(FilesWith(n)) = 1
                    /\ Matches(kind, v)
                    /\ v.j = "number" => ToFloat64(v.n) = v.n
                    /\ v.j = "number" /\ kind # floatType => Whole(v.n) /\ Fits(kind, v.n)
                    => formal[n].val = JsonValue(kind, v)

(***************************************************************************)
(* C6, as stated: a JSON number n in the entry of a Duration setting that  *)
(* the command line and the environment leave alone resolves to n          *)
(* nanoseconds, for every whole n a Duration can hold.                     *)
(***************************************************************************)
C6_DurationNanoseconds_Stated ==
  Returned => \A n \in (Settings \cap unvisited) \ envSets :
                LET v == EntryOf(Max(FilesWith(n)), n)
                IN  /\ formal[n].kind = durationType
                    /\ Cardinality(FilesWith(n)) = 1
                    /\ v.j = "number" /\ Whole(v.n) /\ Fits(durationType, v.n)
                    => formal[n].val = JsonValue(durationType, v)

(***************************************************************************)
(* C6, amended: the same, for every whole n of magnitude at most 2^53, the *)
(* whole numbers a float64 holds without a gap.                            *)
(***************************************************************************)
C6_DurationNanoseconds ==
  Returned => \A n \in (Settings \cap unvisited) \ envSets :
                LET v == EntryOf(Max(FilesWith(n)), n)
                IN  /\ formal[n].kind = durationType
                    /\ Cardinality(FilesWith(n)) = 1
                    /\ v.j = "number" /\ Whole(v.n)
                    /\ LeqBits(v.n.mag, Pow2(Float64Bits))
                    => formal[n].val = JsonValue(durationType, v)

\* 30000000000 in the file, 30 seconds in the flag.
C6_Witness ==
  /\ outcome = "ok"
  /\ "a" \in Settings \cap unvisited
  /\ formal["a"].kind = durationType
  /\ FilesWith("a") = {1}
  /\ EntryOf(1, "a") = JNumber(Num(FALSE, Seconds30, 0))
  /\ formal["a"].val = IntVal(FALSE, Seconds30)

(***************************************************************************)
(* C11: the environment step sets a flag that was not passed on the        *)
(* command line only when the flag was declared with a non-empty           *)
(* environment name and that variable reads non-empty.  With an empty      *)
(* name, or a variable that is unset or empty, the step leaves the flag    *)
(* alone: its value is the one the same call reaches with an empty         *)
(* environment, the file value or the default.                             *)
(***************************************************************************)
NoEnvironment ==
  Collate(FlagSetParse(Declared, args), configFilePaths, flagTypes, envNames,
          fsSeen, Empty)

C11_EnvOnlyWhenNamedAndSet ==
  Ran => \A n \in Settings \cap unvisited :
           /\ n \in envSets => Get(envNames, n, "") # "" /\ EnvValue(n) # ""
           /\ Get(envNames, n, "") = "" \/ EnvValue(n) = "" =>
                /\ n \notin envSets
                /\ formal[n].val = NoEnvironment.formal[n].val

\* A setting with an environment name whose variable is set but empty keeps
\* the value a file gave it.
C11_Witness ==
  /\ outcome = "ok"
  /\ "a" \in Settings \cap unvisited
  /\ envNames["a"] = "EA"
  /\ "EA" \in DOMAIN environ /\ environ["EA"] = ""
  /\ FilesWith("a") # {}
  /\ formal["a"].val # formal["a"].def

(***************************************************************************)
(* C12: a path flag whose cell is empty when its turn comes, because the   *)
(* flag was not given or was given an empty value, is no source at all.    *)
(* No read is attempted for it, and the flags, the files read, the         *)
(* environment step and the way Collate ends are those of the same call    *)
(* over the path flags that hold a path.                                   *)
(***************************************************************************)
EmptyPaths == {i \in 1..Len(configFilePaths) : PathOf(i) = Lit("")}

OverGivenPaths ==
  Collate(FlagSetParse(Declared, args),
          SelectSeq(configFilePaths, LAMBDA c : formal[c].val # Lit("")),
          flagTypes, envNames, fsSeen, environ)

C12_EmptyPathIsAbsent ==
  Ran /\ EmptyPaths # {} =>
    /\ Lit("") \notin Range(reads)
    /\ reads = OverGivenPaths.reads
    /\ \A n \in DOMAIN formal : formal[n].val = OverGivenPaths.formal[n].val
    /\ envSets = OverGivenPaths.envSets
    /\ outcome \in OutcomesOf(OverGivenPaths)

\* The first path flag is given an empty value, the second names a file
\* that sets the setting, and the environment step runs after it.
C12_Witness ==
  /\ outcome = "ok"
  /\ Len(configFilePaths) = 2
  /\ Explicit(configFilePaths[1]) /\ PathOf(1) = Lit("")
  /\ reads = <<PathOf(2)>>
  /\ FilesWith("a") = {2}
  /\ "a" \in Settings \cap unvisited
  /\ formal["a"].val # formal["a"].def

Declares == outcome = "none" /\ outcome' \in {"none", "redefined"}

MaxNested == 2

Nester(flagName, required) == [flag |-> flagName, required |-> required]

Nesters == {Nester(n, r) : n \in {"a", "b"}, r \in BOOLEAN}

RECURSIVE NesterListsUpTo(_)
NesterListsUpTo(n) ==
  IF n = 0 THEN {<<>>}
  ELSE LET shorter == NesterListsUpTo(n - 1)
       IN  shorter \cup {Append(q, x) : q \in shorter, x \in Nesters}

NestedArguments == {Arg("a", "x"), Arg("b", "y"), Arg("zz", "1")}

NestedArgLists ==
  {l \in ArgListsUpTo(NestedArguments, MaxArgs) :
     \A i, k \in 1..Len(l) : l[i].name = l[k].name => i = k}

NestedWorlds == {[fs |-> Empty, env |-> Empty]}

Call(op, i) == [op |-> op, nc |-> i]

\* The calls of one kind made so far.
Made(op) == Cardinality({i \in 1..Len(calls) : calls[i].op = op})

\* Where ParseNested stands after RegisterFlags on the i-th of n Nesters,
\* and after AfterParsed on the i-th of n returned err.
AfterRegisterFirst(i, n) == "parse"

AfterRegister(i, n) == IF i < n THEN "register" ELSE "parse"

AfterAfterParsedFirst(err, i, n) == IF err THEN "returnedErr" ELSE "returnedNil"

AfterAfterParsed(err, i, n) ==
  IF err THEN "returnedErr" ELSE IF i < n THEN "after" ELSE "returnedNil"

\* The call of ParseNested: NewFlagfigSet.
ParseNested(configs) ==
  /\ pc = "idle"
  /\ outcome = "none" /\ formal = Empty /\ configFilePaths = <<>>
  /\ nestedConfigs' = configs
  /\ calls' = <<>>
  /\ pc' = AfterRegister(0, Len(configs))
  /\ UNCHANGED <<formal, actual, configFilePaths, flagTypes, envNames, outcome,
                 args, unvisited, reads, fsSeen, environ, envSets>>

\* nc.RegisterFlags(flags), of the next Nester of the first loop; a flag
\* name that is already registered ends ParseNested in the panic.
RegisterFlags ==
  /\ pc = "register"
  /\ LET i == Made("RegisterFlags") + 1
     IN  /\ String(nestedConfigs[i].flag, "", "")
         /\ calls' = Append(calls, Call("RegisterFlags", i))
         /\ pc' = IF outcome' = "redefined" THEN "panicked"
                  ELSE AfterRegister(i, Len(nestedConfigs))
  /\ UNCHANGED nestedConfigs

\* flags.Parse(args): an error is returned at once.
ParseNestedParse ==
  /\ pc = "parse"
  /\ \E l \in NestedArgLists : Parse(l, NestedWorlds)
  /\ calls' = Append(calls, Call("Parse", 0))
  /\ pc' = IF outcome' = "ok" THEN AfterAfterParsed(FALSE, 0, Len(nestedConfigs))
           ELSE "returnedErr"
  /\ UNCHANGED nestedConfigs

\* nc.AfterParsed(), of the next Nester of the second loop.
AfterParsed ==
  /\ pc = "after"
  /\ LET i == Made("AfterParsed") + 1
         nc == nestedConfigs[i]
         err == nc.required /\ formal[nc.flag].val = Lit("")
     IN  /\ calls' = Append(calls, Call("AfterParsed", i))
         /\ pc' = AfterAfterParsed(err, i, Len(nestedConfigs))
  /\ UNCHANGED <<formal, actual, configFilePaths, flagTypes, envNames, outcome,
                 args, unvisited, reads, fsSeen, environ, envSets, nestedConfigs>>

NextNested ==
  \/ \E configs \in NesterListsUpTo(MaxNested) : ParseNested(configs) /\ UNCHANGED <<trim, earlier>>
  \/ RegisterFlags /\ UNCHANGED <<trim, earlier>>
  \/ ParseNestedParse /\ UNCHANGED <<trim, earlier>>
  \/ AfterParsed /\ UNCHANGED <<trim, earlier>>

SpecNested == Init /\ [][NextNested]_vars

\* ParseNested is over; its parse (and the Collate in it) succeeded.
Over == pc \in {"returnedNil", "returnedErr", "panicked"}

Parsed == outcome = "ok"

Position(op, i) == {k \in 1..Len(calls) : calls[k] = Call(op, i)}

(***************************************************************************)
(* C14: in ParseNested every RegisterFlags call comes before the parse and *)
(* every AfterParsed call after it, once the parse and its Collate have    *)
(* succeeded; the k-th RegisterFlags call is on the k-th Nester of the     *)
(* list, the parse comes when all of them have registered, and the k-th    *)
(* AfterParsed call is on the k-th Nester.                                 *)
(***************************************************************************)
C14_RegisterParseAfterOrder ==
  LET n == Len(nestedConfigs)
      r == Made("RegisterFlags")
      a == Made("AfterParsed")
      parsed == Made("Parse")
  IN  /\ r <= n /\ a <= n /\ parsed <= 1
      /\ Len(calls) = r + parsed + a
      /\ \A k \in 1..r : calls[k] = Call("RegisterFlags", k)
      /\ parsed = 1 => r = n /\ calls[n + 1] = Call("Parse", 0)
      /\ a > 0 => parsed = 1 /\ Parsed
      /\ \A k \in 1..a : calls[n + 1 + k] = Call("AfterParsed", k)

\* Two Nesters, both registered, parsed and told so, in the order of the list.
C14_Witness ==
  /\ pc = "returnedNil"
  /\ Len(nestedConfigs) = 2
  /\ nestedConfigs[1].flag = "b" /\ nestedConfigs[2].flag = "a"
  /\ Len(calls) = 5

Fails(i) ==
  nestedConfigs[i].required /\ formal[nestedConfigs[i].flag].val = Lit("")

MaxCutArgs == 4

Words == {"--", "-v", "x"}

RECURSIVE WordListsUpTo(_)
WordListsUpTo(n) ==
  IF n = 0 THEN {<<>>}
  ELSE LET shorter == WordListsUpTo(n - 1)
       IN  shorter \cup {Append(q, w) : q \in shorter, w \in Words}

\* The loop, from the i-th argument on: dex and found when it ends, dex
\* counted from 1.
FindLast(token, arguments, i) ==
  LET hits == {k \in i..Len(arguments) : arguments[k] = token}
  IN  IF hits = {} THEN [dex |-> 0, found |-> FALSE]
      ELSE [dex |-> Max(hits), found |-> TRUE]

RECURSIVE Find(_, _, _)
Find(token, arguments, i) ==
  IF i > Len(arguments) THEN [dex |-> 0, found |-> FALSE]
  ELSE IF arguments[i] = token THEN [dex |-> i, found |-> TRUE]
  ELSE Find(token, arguments, i + 1)

ArgsAfterArgWithEqualTo(token, arguments) ==
  LET r == Find(token, arguments, 1)
  IN  IF r.found THEN SubSeq(arguments, r.dex + 1, Len(arguments))
      ELSE arguments

CallArgsAfterArgWithEqualTo(token, arguments) ==
  /\ ~trim.called
  /\ trim' = [called |-> TRUE, token |-> token, args |-> arguments,
             result |-> ArgsAfterArgWithEqualTo(token, arguments)]
  /\ UNCHANGED <<flagVars, nestVars, earlier>>

NextCut ==
  \E token \in Words, arguments \in WordListsUpTo(MaxCutArgs) :
    CallArgsAfterArgWithEqualTo(token, arguments)

SpecCut == Init /\ [][NextCut]_vars

(***************************************************************************)
(* C16: when some argument equals the token, ArgsAfterArgWithEqualTo       *)
(* returns the arguments strictly after the first such argument, in order  *)
(* (none when it is the last one); when no argument equals the token it    *)
(* returns the arguments as they are.                                      *)
(***************************************************************************)
C16_ArgsAfterFirstToken ==
  trim.called =>
    LET hits == {k \in 1..Len(trim.args) : trim.args[k] = trim.token}
        first == CHOOSE k \in hits : \A h \in hits : k <= h
    IN  IF hits = {} THEN trim.result = trim.args
        ELSE /\ Len(trim.result) = Len(trim.args) - first
             /\ \A k \in 1..Len(trim.result) : trim.result[k] = trim.args[first + k]

\* The token occurs twice: the second occurrence is part of the result.
C16_Witness ==
  /\ trim.called
  /\ trim.args = <<"x", "--", "-v", "--">>
  /\ trim.token = "--"
  /\ trim.result = <<"-v", "--">>

(***************************************************************************)
(* Collate called again: the exported FlagfigSet.Collate on a registry     *)
(* that Parse has already collated, over files and an environment that may *)
(* have changed in between.                                                *)
(***************************************************************************)

\* The Collate calls made on a registry after the one of Parse.
MaxAgain == 1

AgainFiles ==
  {Absent, Object(Empty), Object("a" :> JString("hello")),
   Object("a" :> JString("12"))}

AgainWorlds ==
  {[fs |-> ("f1" :> x), env |-> e] :
     x \in AgainFiles, e \in {Empty, "EA" :> "true", "EA" :> "12"}}

AgainArgLists ==
  {<<>>, <<Arg("c1", "f1")>>, <<Arg("a", "0"), Arg("c1", "f1")>>}

\* What a Collate left behind.
Left ==
  [formal |-> formal, actual |-> actual, unvisited |-> unvisited,
   reads |-> reads, fsSeen |-> fsSeen, environ |-> environ,
   envSets |-> envSets, outcome |-> outcome]

CollateAgain(worlds) ==
  /\ outcome \in {"ok", "collateError"}
  /\ Len(earlier) < MaxAgain
  /\ earlier' = Append(earlier, Left)
  /\ \E w \in worlds :
       Collated(Collate(Registry, configFilePaths, flagTypes, envNames, w.fs, w.env),
                w.fs, w.env)
  /\ UNCHANGED <<configFilePaths, flagTypes, envNames, args>>

NextAgain ==
  \/ \E d \in BoolDefaults, e \in EnvVarNames : Bool("a", d, e)
       /\ UNCHANGED <<nestVars, trim, earlier>>
  \/ \E d \in StringDefaults, e \in EnvVarNames : String("a", d, e)
       /\ UNCHANGED <<nestVars, trim, earlier>>
  \/ \E d \in IntDefaults, e \in EnvVarNames : Int("a", d, e)
       /\ UNCHANGED <<nestVars, trim, earlier>>
  \/ AddConfigFile("c1") /\ UNCHANGED <<nestVars, trim, earlier>>
  \/ \E l \in AgainArgLists : Parse(l, AgainWorlds)
       /\ UNCHANGED <<nestVars, trim, earlier>>
  \/ CollateAgain(AgainWorlds) /\ UNCHANGED <<nestVars, trim>>

SpecAgain == Init /\ [][NextAgain]_vars

(***************************************************************************)
(* C17, as stated: a file is read at most once per registry.  A Collate    *)
(* after the first reads no file an earlier Collate has read, and the      *)
(* flags it leaves are those it reaches over the contents the earlier      *)
(* Collate found, whatever the file holds by now.                          *)
(***************************************************************************)
OverCached(k) ==
  Collate([Registry EXCEPT !.formal = earlier[k].formal,
                           !.actual = earlier[k].actual],
          configFilePaths, flagTypes, envNames,
          earlier[k].fsSeen @@ fsSeen, environ)

C17_ReadOnce_Stated ==
  \A k \in 1..Len(earlier) :
    /\ Range(reads) \cap Range(earlier[k].reads) = {}
    /\ k = Len(earlier) /\ Ran =>
         \A n \in DOMAIN formal : formal[n].val = OverCached(k).formal[n].val

(***************************************************************************)
(* C18, as stated: in every Collate the flags open to the files and the    *)
(* environment are the declared flags that the command line did not pass,  *)
(* also in a Collate that follows one which set a flag from a file or from *)
(* the environment.                                                        *)
(***************************************************************************)
C18_EligibleEachCollate_Stated ==
  Ran => unvisited = {n \in DOMAIN formal : ~Explicit(n)}

(***************************************************************************)
(* Two settings and the keys of a file: the names of both, a name in       *)
(* another case and a name no flag has.                                    *)
(***************************************************************************)
FrameNames == {"a", "b"}

FrameFiles1 ==
  {Object(Empty), Object("a" :> JString("hello")), Object("b" :> JString("12")),
   Object("A" :> JString("hello")), Object("zz" :> JString("hello")),
   Object(("a" :> JString("12")) @@ ("b" :> JString("world"))),
   Object(("A" :> JString("12")) @@ ("b" :> JString("world")))}

FrameFiles2 ==
  {Object(Empty), Object("a" :> JString("world")), Object("b" :> JString("5")),
   Object("A" :> JString("world"))}

FrameWorlds ==
  {[fs |-> ("f1" :> x) @@ ("f2" :> y), env |-> Empty] :
     x \in FrameFiles1, y \in FrameFiles2}

FrameArgLists ==
  {<<Arg("c1", "f1")>>, <<Arg("c1", "f1"), Arg("c2", "f2")>>,
   <<Arg("c2", "f2"), Arg("b", "0")>>}

NextFrame ==
  \/ \E n \in FrameNames, d \in StringDefaults : String(n, d, "")
       /\ UNCHANGED <<nestVars, trim, earlier>>
  \/ \E n \in FrameNames, d \in IntDefaults : Int(n, d, "")
       /\ UNCHANGED <<nestVars, trim, earlier>>
  \/ \E n \in ConfigFlagNames : AddConfigFile(n)
       /\ UNCHANGED <<nestVars, trim, earlier>>
  \/ \E l \in FrameArgLists : Parse(l, FrameWorlds)
       /\ UNCHANGED <<nestVars, trim, earlier>>

SpecFrame == Init /\ [][NextFrame]_vars

(***************************************************************************)
(* C19: a file changes a setting only through a key that is exactly the    *)
(* setting's name.  The value a setting ends with is the one the same call *)
(* reaches over files stripped of every other key, a key that differs only *)
(* in case or names no flag included; and a setting that no file names and *)
(* the command line did not pass still holds its default.                  *)
(***************************************************************************)
Only(n, dat) ==
  IF dat.k # "object" THEN dat
  ELSE Object([k \in DOMAIN dat.m \cap {n} |-> dat.m[k]])

OnlyKey(n) ==
  Collate(FlagSetParse(Declared, args), configFilePaths, flagTypes, envNames,
          [p \in DOMAIN fsSeen |-> Only(n, fsSeen[p])], environ)

C19_OnlyExactKey ==
  Returned => \A n \in Settings :
                /\ formal[n].val = OnlyKey(n).formal[n].val
                /\ ~Explicit(n) /\ FilesWith(n) = {} /\ n \notin envSets
                     => formal[n].val = formal[n].def

\* The first file names b and holds a key "A"; no file holds the key "a":
\* b has the file's value and a its default.
C19_Witness ==
  /\ outcome = "ok"
  /\ {"a", "b"} \subseteq Settings \cap unvisited
  /\ HasEntry(1, "A") /\ HasEntry(1, "b")
  /\ FilesWith("a") = {}
  /\ formal["a"].val = formal["a"].def
  /\ formal["b"].val # formal["b"].def

(***************************************************************************)
(* C20, as stated: a JSON number in the entry of an Int, Int64, Uint or    *)
(* Uint64 setting that the command line and the environment leave alone    *)
(* resolves to the number when it is whole and in the kind's range, to a   *)
(* nearest whole number when it has a fraction, and leaves the setting as  *)
(* it was (here: at its default) when that whole number is outside the     *)
(* kind's range, a negative one for the unsigned kinds included.           *)
(***************************************************************************)
Nearest(n) ==
  {m \in {n.mag, IncBits(n.mag)} :
     /\ m = n.mag => 2 * n.frac <= Den
     /\ m # n.mag => 2 * n.frac >= Den}

InRange(kind, neg, mag) ==
  IF kind \in UnsignedKinds THEN ~neg /\ Len(mag) <= IntSize
  ELSE Len(mag) <= IntSize - 1 \/ (neg /\ mag = Pow2(IntSize - 1))

C20_IntegerFromNumber_Stated ==
  Returned => \A n \in (Settings \cap unvisited) \ envSets :
                LET kind == formal[n].kind
                    v == EntryOf(Max(FilesWith(n)), n)
                    fit == {m \in Nearest(v.n) : InRange(kind, v.n.neg, m)}
                IN  /\ kind \in SignedKinds \cup UnsignedKinds
                    /\ Cardinality(FilesWith(n)) = 1
                    /\ v.j = "number" /\ ToFloat64(v.n) = v.n
                    => IF fit # {}
                         THEN \E m \in fit :
                                formal[n].val = IntVal(v.n.neg /\ m # <<>>, m)
                         ELSE formal[n].val = formal[n].def

(***************************************************************************)
(* C21, as stated: a JSON number in the entry of a Float64 setting that    *)
(* the command line and the environment leave alone resolves to exactly    *)
(* that number, the float64 the file's number decodes to: the string the   *)
(* flag is set from loses nothing, whatever the number of its fractional   *)
(* digits and however small it is.                                         *)
(***************************************************************************)
C21_FloatExact_Stated ==
  Returned => \A n \in (Settings \cap unvisited) \ envSets :
                LET v == EntryOf(Max(FilesWith(n)), n)
                IN  /\ formal[n].kind = floatType
                    /\ Cardinality(FilesWith(n)) = 1
                    /\ v.j = "number"
                    => formal[n].val = ToFloat64(v.n)

(***************************************************************************)
(* Two settings with an environment variable each, and values that a Bool  *)
(* or an Int cannot parse.                                                 *)
(***************************************************************************)
EnvNameOf == ("a" :> "EA") @@ ("b" :> "EB")

EnvValues == {"", "12", "hello"}

EnvWorlds ==
  {[fs |-> ("f1" :> x), env |-> ("EA" :> va) @@ ("EB" :> vb)] :
     x \in {Object(Empty), Object("a" :> JString("3"))},
     va \in EnvValues, vb \in EnvValues}

EnvArgLists == {<<>>, <<Arg("c1", "f1")>>}

NextEnv ==
  \/ \E n \in DOMAIN EnvNameOf, d \in BoolDefaults : Bool(n, d, EnvNameOf[n])
       /\ UNCHANGED <<nestVars, trim, earlier>>
  \/ \E n \in DOMAIN EnvNameOf, d \in StringDefaults : String(n, d, EnvNameOf[n])
       /\ UNCHANGED <<nestVars, trim, earlier>>
  \/ \E n \in DOMAIN EnvNameOf, d \in IntDefaults : Int(n, d, EnvNameOf[n])
       /\ UNCHANGED <<nestVars, trim, earlier>>
  \/ AddConfigFile("c1") /\ UNCHANGED <<nestVars, trim, earlier>>
  \/ \E l \in EnvArgLists : Parse(l, EnvWorlds)
       /\ UNCHANGED <<nestVars, trim, earlier>>

SpecEnv == Init /\ [][NextEnv]_vars

(***************************************************************************)
(* C22, as stated: a setting that the command line did not pass and whose  *)
(* environment value is non-empty but not one its kind parses keeps the    *)
(* value the files or its default gave it, and Collate returns an error,   *)
(* whatever the other settings' environment values are and whichever       *)
(* setting the environment step visits last.                               *)
(***************************************************************************)
Unparsable ==
  {n \in Settings \cap unvisited :
     EnvValue(n) # "" /\ ~Parses(formal[n].kind, EnvValue(n))}

C22_BadEnvKeepsValue_Stated ==
  Returned => \A n \in Unparsable :
                /\ formal[n].val = NoEnvironment.formal[n].val
                /\ outcome = "collateError"

\* The second half alone: with an unparsable value Collate returns an error.
BadEnvIsError == Returned /\ Unparsable # {} => outcome = "collateError"

(***************************************************************************)
(* C23.  The arguments up to the first one that names no flag or whose     *)
(* value the flag's kind does not parse are the ones the parse applied.    *)
(***************************************************************************)
BadArg(i) ==
  \/ args[i].name \notin DOMAIN formal
  \/ ~Parses(formal[args[i].name].kind, args[i].value)

Applied ==
  {args[i].name : i \in {k \in 1..Len(args) : \A h \in 1..k : ~BadArg(h)}}

FailedOn ==
  {args[i].name : i \in {k \in 1..Len(args) :
                           BadArg(k) /\ \A h \in 1..k - 1 : ~BadArg(h)}}

(***************************************************************************)
(* C23, as stated: when the argument parse fails, Parse returns its error, *)
(* no file is read, no environment value is applied, and every setting the *)
(* arguments did not set before the failure holds its default.  Collate    *)
(* runs only after a parse without error, and Parse then returns what      *)
(* Collate returns.                                                        *)
(***************************************************************************)
C23_CollateOnlyAfterParse_Stated ==
  outcome = "parseError" =>
    \A n \in Settings \ Applied : formal[n].val = formal[n].def

(***************************************************************************)
(* C23, amended: the same, but for the setting named by the argument the   *)
(* parse failed on: its flag holds what the failed conversion left, every  *)
(* other setting the arguments did not set holds its default.              *)
(***************************************************************************)
C23_CollateOnlyAfterParse ==
  /\ outcome = "parseError" =>
       /\ FailedOn # {}
       /\ reads = <<>> /\ fsSeen = Empty /\ envSets = {} /\ unvisited = {}
       /\ actual = Applied
       /\ \A n \in Applied : formal[n].val = ValueOf(formal[n].kind, CmdValue(n))
       /\ \A n \in DOMAIN formal \ (Applied \cup FailedOn) :
            formal[n].val = formal[n].def
  /\ Ran =>
       /\ FailedOn = {}
       /\ outcome \in OutcomesOf(Collate(FlagSetParse(Declared, args),
                                         configFilePaths, flagTypes, envNames,
                                         fsSeen, environ))

\* The parse set a path flag and then failed on the next argument: the file
\* is not read.
C23_Witness ==
  /\ outcome = "parseError"
  /\ Len(args) = 2
  /\ args[1].name \in Range(configFilePaths) /\ args[1].name \in actual
  /\ args[1].value # ""
  /\ args[2].name \in Settings \ actual
  /\ reads = <<>>

(***************************************************************************)
(* Files that name the path flags: a path flag is a string flag of the     *)
(* flag set like any other, so an entry under its name sets its cell.      *)
(***************************************************************************)
PathFiles1 ==
  {Object(Empty), Object("c2" :> JString("f2")),
   Object(("c2" :> JString("f2")) @@ ("a" :> JString("hello"))),
   Object("a" :> JString("hello"))}

PathFiles2 ==
  {Absent, Object("a" :> JString("world")), Object("c1" :> JString("f1")),
   Object("c1" :> JString("f2")),
   Object(("c1" :> JString("f1")) @@ ("a" :> JString("world")))}

PathWorlds ==
  {[fs |-> ("f1" :> x) @@ ("f2" :> y), env |-> e] :
     x \in PathFiles1, y \in PathFiles2, e \in {Empty, "EA" :> "12"}}

PathArgLists ==
  {<<>>, <<Arg("c1", "f1")>>, <<Arg("c2", "f2")>>,
   <<Arg("c1", "f1"), Arg("c2", "f2")>>}

\* The worlds in which the files the last Collate read and the environment
\* are as that Collate found them.
SameWorlds(worlds) ==
  {w \in worlds : /\ w.env = environ
                  /\ \A q \in DOMAIN fsSeen : w.fs[q] = fsSeen[q]}

NextPaths ==
  \/ \E d \in StringDefaults, e \in EnvVarNames : String("a", d, e)
       /\ UNCHANGED <<nestVars, trim, earlier>>
  \/ \E n \in ConfigFlagNames : AddConfigFile(n)
       /\ UNCHANGED <<nestVars, trim, earlier>>
  \/ \E l \in PathArgLists : Parse(l, PathWorlds)
       /\ UNCHANGED <<nestVars, trim, earlier>>
  \/ CollateAgain(SameWorlds(PathWorlds)) /\ UNCHANGED <<nestVars, trim>>

SpecPaths == Init /\ [][NextPaths]_vars

(***************************************************************************)
(* C24, as stated: Collate is idempotent.  After a Collate that returned   *)
(* without error, a Collate over the same files and the same environment   *)
(* leaves every flag's value as it was.                                    *)
(***************************************************************************)
C24_CollateIdempotent_Stated ==
  \A k \in 1..Len(earlier) :
    /\ k = Len(earlier) /\ Ran
    /\ earlier[k].outcome = "ok"
    /\ environ = earlier[k].environ
    /\ \A q \in DOMAIN fsSeen \cap DOMAIN earlier[k].fsSeen :
         fsSeen[q] = earlier[k].fsSeen[q]
    => \A n \in DOMAIN formal : formal[n].val = earlier[k].formal[n].val

\* The cell of the i-th path flag when its turn comes in the first pass:
\* what the command line gave it, or else the string the last file read
\* before its turn holds under its name, or else the empty default.
RECURSIVE TurnCell(_)
TurnCell(i) ==
  LET n == configFilePaths[i]
      holds(j) == LET dat == ReadFile(fsSeen, TurnCell(j))
                  IN  /\ TurnCell(j) # Lit("")
                      /\ dat \notin {Absent, Garbage}
                      /\ n \in DOMAIN dat.m
                      /\ dat.m[n].j = "string"
      from == {j \in 1..(i - 1) : holds(j)}
  IN  IF Explicit(n) THEN Lit(CmdValue(n))
      ELSE IF from = {} THEN Lit("")
      ELSE Lit(ReadFile(fsSeen, TurnCell(Max(from))).m[n].s)

\* The paths a complete first pass reads, in registration order.
TurnReads ==
  SelectSeq([i \in 1..Len(configFilePaths) |-> TurnCell(i)],
            LAMBDA c : c # Lit(""))

IsPrefix(q, r) == Len(q) <= Len(r) /\ \A i \in 1..Len(q) : q[i] = r[i]

(***************************************************************************)
(* C25: a path flag that the command line did not give is set by the file  *)
(* step like a setting.  In the Collate of Parse the cell of a path flag   *)
(* at its turn is the command-line value, or else the string the last file *)
(* read before its turn holds under the flag's name; the files read are    *)
(* the cells that are non-empty at their turn, in registration order (up   *)
(* to the file whose read ended the pass); and no path flag is set from    *)
(* the environment.                                                        *)
(***************************************************************************)
C25_PathFlagFromFile ==
  earlier = <<>> /\ Ran =>
    /\ IsPrefix(reads, TurnReads)
    /\ Returned => reads = TurnReads
    /\ envSets \cap Range(configFilePaths) = {}
    /\ Range(configFilePaths) \cap DOMAIN envNames = {}

\* Parse returned, and a path flag the command line did not give was set by
\* an earlier file and the file it then named was read.
C25_Witness ==
  /\ earlier = <<>> /\ Returned
  /\ \E i \in 1..Len(configFilePaths) :
       /\ ~Explicit(configFilePaths[i])
       /\ TurnCell(i) # Lit("")
       /\ TurnCell(i) \in Range(reads)
       /\ PathOf(i) = TurnCell(i)
====
